---------------------------- MODULE Spec2Model ----------------------------
(***************************************************************************)
(* singerprint: the fingerprinting pipeline of AudioProcessor              *)
(* (process_audio, find_peaks, is_local_maximum, generate_hash) and the    *)
(* FingerprintMatcher (add_fingerprint, find_match, compare_fingerprints). *)
(*                                                                         *)
(* Four specifications share the module's variables:                       *)
(*   SpecAudio  a call of process_audio on a configured processor          *)
(*   SpecPeaks  a direct call of the public find_peaks on a spectrogram    *)
(*   SpecHash   a direct call of the public generate_hash on a peak list   *)
(*   SpecMatch  a matcher receiving add_fingerprint and find_match calls   *)
(*                                                                         *)
(* Numbers.  usize arithmetic is kept with its wrap-around: a release      *)
(* build wraps a - b for a < b, a debug build panics ("attempt to subtract *)
(* with overflow"); which build runs is the variable build.  f32 values    *)
(* are kept exact: a magnitude is an integer count of units of 0.05,       *)
(* a frequency or a time is the unreduced fraction <<num, den>> the code   *)
(* divides out.  Indices are the code's 0-based ones; sequences are        *)
(* 1-based, so element k of a Vec v is v[k + 1].                            *)
(***************************************************************************)
EXTENDS Integers, Sequences, FiniteSets, TLC

VARIABLES
    sample_rate,   \* AudioProcessor.sample_rate
    window_size,   \* AudioProcessor.window_size
    overlap,       \* AudioProcessor.overlap (the hop between windows)
    build,         \* "debug" | "release": overflow checks on or off
    entry,         \* the public function that was called
    pc,            \* position inside the call
    audio_data,    \* process_audio's argument
    spectrogram,   \* Vec<Vec<f32>>: the frames built so far / the argument
    i,             \* process_audio's window offset
    t,             \* find_peaks' frame index
    peaks,         \* Vec<(f32, f32)> of (freq, time)
    hash,          \* Vec<u64>
    result,        \* "running" | "Ok" | "Err" | "returned" | a panic
    database,      \* FingerprintMatcher.database: name -> fingerprint
    iter_order,    \* the HashMap's iteration order over the names
    last_op,       \* the matcher call that just returned
    match_result   \* the Option<String> find_match returned

vars == <<sample_rate, window_size, overlap, build, entry, pc, audio_data,
          spectrogram, i, t, peaks, hash, result, database, iter_order,
          last_op, match_result>>

procVars == <<sample_rate, window_size, overlap, build>>
pipeVars == <<entry, pc, audio_data, spectrogram, i, t, peaks, hash, result>>
matchVars == <<database, iter_order, last_op, match_result>>

---------------------------------------------------------------------------
(* Bounds of the model *)

MaxWindow == 3       \* window_size ranges over 1..MaxWindow under SpecAudio
MaxHop == 4          \* overlap ranges over 1..MaxHop under SpecAudio
MaxSamples == 24     \* audio_data has 0..MaxSamples samples
MaxFrames == 25      \* spectrograms handed to find_peaks: 0..MaxFrames frames
MaxBins == 25        \* ... of 0..MaxBins bins each
MaxPeaks == 8        \* peak lists handed to generate_hash: 0..MaxPeaks peaks

(* Program constants *)

DefaultSampleRate == 44100   \* main: AudioProcessor::new(44100)
DefaultWindowSize == 2048
DefaultOverlap == 1024
NeighborhoodSize == 10       \* find_peaks: border excluded from the scan
Radius == 3                  \* is_local_maximum: dt, df in -3..=3
Threshold == 2               \* threshold = 0.1, in magnitude units of 0.05
FanOut == 5                  \* generate_hash: fan_out

\* usize wraps modulo 2^64; TLC's integers end at 2^31, so the
\* modulus is scaled down. The model only relies on it exceeding every
\* length and index within the bounds.
UsizeModulus == 2^30

Builds == {"debug", "release"}

---------------------------------------------------------------------------
(* usize and f32 helpers *)

\* a - b on usize in a release build
WrappingSub(a, b) == IF a >= b THEN a - b ELSE UsizeModulus - (b - a)

\* (x as i32 + d) as usize
OffsetIndex(x, d) == IF x + d >= 0 THEN x + d ELSE UsizeModulus + (x + d)

\* x as u32 for a float x = num / den (den > 0): truncation, negatives to 0
AsU32(q) == IF q[1] <= 0 THEN 0 ELSE q[1] \div q[2]

\* a - b on fractions (over the common denominator when there is one)
FracSub(a, b) ==
    IF a[2] = b[2] THEN <<a[1] - b[1], a[2]>>
    ELSE <<a[1] * b[2] - b[1] * a[2], a[2] * b[2]>>

RECURSIVE SumAbs(_)
SumAbs(s) ==
    IF s = <<>> THEN 0
    ELSE (IF Head(s) < 0 THEN -Head(s) ELSE Head(s)) + SumAbs(Tail(s))

---------------------------------------------------------------------------
(* Inputs *)

Samples(n, a) == [k \in 1..n |-> a]
AudioInputs == {Samples(n, a) : n \in 0..MaxSamples, a \in {0, 1}}

Flat(frames, bins, bg) == [tt \in 1..frames |-> [ff \in 1..bins |-> bg]]

\* background bg with magnitude m1 at grid point p1 and m2 at p2
Spikes(frames, bins, bg, p1, m1, p2, m2) ==
    [tt \in 1..frames |-> [ff \in 1..bins |->
        IF <<tt - 1, ff - 1>> = p1 THEN m1
        ELSE IF <<tt - 1, ff - 1>> = p2 THEN m2 ELSE bg]]

ScanMin == 2 * NeighborhoodSize + 1   \* fewest frames / bins with a scanned point

SpikeOffsets ==
    {<<dt, df>> : dt \in {0, Radius, Radius + 1},
                  df \in {-Radius, 0, 1, Radius + 1}} \ {<<0, 0>>}

Spectrograms ==
    {Flat(fr, bn, bg) : fr \in 0..MaxFrames, bn \in 0..MaxBins,
                        bg \in {0, Threshold}}
    \cup
    {Spikes(fr, bn, bg, <<t1, NeighborhoodSize>>, m1,
            <<t1 + o[1], NeighborhoodSize + o[2]>>, m2) :
        fr \in {ScanMin, MaxFrames}, bn \in {ScanMin, MaxBins},
        bg \in {0, Threshold},
        t1 \in {NeighborhoodSize, NeighborhoodSize + 1},
        m1 \in {Threshold - 1, Threshold, Threshold + 1},
        m2 \in {Threshold, Threshold + 1},
        o \in SpikeOffsets}

\* all sequences over S of length 0..n
SeqsUpTo(S, n) == UNION {[1..m -> S] : m \in 0..n}

\* three peaks under the default configuration; the third lies far enough
\* in time for a non-zero time delta
DefaultPeak(ff, tt) == << <<ff * DefaultSampleRate, 2 * DefaultWindowSize>>,
                          <<tt * DefaultOverlap, DefaultSampleRate>> >>
PeakLow == DefaultPeak(NeighborhoodSize, NeighborhoodSize)
PeakHigh == DefaultPeak(NeighborhoodSize + Radius + 1, NeighborhoodSize)
PeakLate == DefaultPeak(NeighborhoodSize + 1, NeighborhoodSize * FanOut * 2)

PeakPool == {PeakLow, PeakHigh, PeakLate}

PeakLists == SeqsUpTo(PeakPool, MaxPeaks)

---------------------------------------------------------------------------
(* process_audio: the windowing loop *)

\* The window at offset i: audio_data[i + j] for j in 0..window_size
Window(i0) == [j \in 1..window_size |-> audio_data[i0 + j]]

\* One frame: window_size / 2 magnitudes. The Hanning taper and rustfft's
\* transform are floating-point code of an external crate; a bin's
\* magnitude is abstracted to its upper bound, the window's absolute sum.
Magnitudes(w) == [k \in 1..(window_size \div 2) |-> SumAbs(w)]

\* audio_data.len() - self.window_size underflows
LoopBoundOverflows == Len(audio_data) < window_size

LoopBound == WrappingSub(Len(audio_data), window_size)

\* process_audio(&self, audio_data) is called
ProcessAudio ==
    /\ pc = "ready" /\ entry = "process_audio"
    /\ audio_data' \in AudioInputs
    /\ spectrogram' = <<>>
    /\ i' = 0
    /\ pc' = "windowing"
    /\ UNCHANGED <<procVars, entry, t, peaks, hash, result, matchVars>>

\* one evaluation of the while condition and, if it holds, of the body
WindowLoop ==
    /\ pc = "windowing"
    /\ IF LoopBoundOverflows /\ build = "debug"
       THEN /\ result' = "panic_overflow" /\ pc' = "done"
            /\ UNCHANGED <<spectrogram, i>>
       ELSE IF i < LoopBound
            THEN IF i + window_size > Len(audio_data)
                 THEN /\ result' = "panic_index" /\ pc' = "done"
                      /\ UNCHANGED <<spectrogram, i>>
                 ELSE /\ spectrogram' = Append(spectrogram, Magnitudes(Window(i)))
                      /\ i' = i + overlap
                      /\ UNCHANGED <<pc, result>>
            ELSE /\ pc' = "find_peaks"
                 /\ UNCHANGED <<spectrogram, i, result>>
    /\ UNCHANGED <<procVars, entry, audio_data, t, peaks, hash, matchVars>>

---------------------------------------------------------------------------
(* find_peaks and is_local_maximum *)

InRange(sp, tt, ff) ==
    /\ tt >= 0 /\ tt < Len(sp)
    /\ ff >= 0 /\ ff < Len(sp[tt + 1])

At(sp, tt, ff) == sp[tt + 1][ff + 1]

Side == 2 * Radius + 1

\* the k-th (dt, df) of the nested loops, k in 1..Side*Side
Offset(k) == <<((k - 1) \div Side) - Radius, ((k - 1) % Side) - Radius>>

NeighbourT(tt, k) == OffsetIndex(tt, Offset(k)[1])
NeighbourF(ff, k) == OffsetIndex(ff, Offset(k)[2])

\* Decides with the comparison `> current`: an equal neighbour no longer
\* disqualifies
DecidesOnGreater(sp, ff, tt, k) ==
    /\ Offset(k) # <<0, 0>>
    /\ \/ ~InRange(sp, NeighbourT(tt, k), NeighbourF(ff, k))
       \/ At(sp, NeighbourT(tt, k), NeighbourF(ff, k)) > At(sp, tt, ff)

\* the neighbour ends the loop: its read panics, or it is >= current
Decides(sp, ff, tt, k) ==
    /\ Offset(k) # <<0, 0>>
    /\ \/ ~InRange(sp, NeighbourT(tt, k), NeighbourF(ff, k))
       \/ At(sp, NeighbourT(tt, k), NeighbourF(ff, k)) >= At(sp, tt, ff)

\* "true" | "false" | "panic_index"
IsLocalMaximum(sp, ff, tt) ==
    IF ~InRange(sp, tt, ff) THEN "panic_index"
    ELSE IF At(sp, tt, ff) < Threshold THEN "false"
    ELSE LET hits == {k \in 1..(Side * Side) : Decides(sp, ff, tt, k)}
         IN  IF hits = {} THEN "true"
             ELSE LET k == CHOOSE x \in hits : \A y \in hits : x <= y
                  IN  IF InRange(sp, NeighbourT(tt, k), NeighbourF(ff, k))
                      THEN "false" ELSE "panic_index"

\* (freq, time) of grid point (f, t)
PeakAt(ff, tt) == << <<ff * sample_rate, 2 * window_size>>,
                     <<tt * overlap, sample_rate>> >>

\* The inner loop over f for frame tt, from ff up to fEnd:
\* [status |-> "ok" | "panic_index", found |-> the peaks pushed]
RECURSIVE ScanRow(_, _, _, _)
ScanRow(sp, tt, ff, fEnd) ==
    IF ff >= fEnd THEN [status |-> "ok", found |-> <<>>]
    ELSE LET m == IsLocalMaximum(sp, ff, tt)
         IN  IF m = "panic_index" THEN [status |-> "panic_index", found |-> <<>>]
             ELSE LET rest == ScanRow(sp, tt, ff + 1, fEnd)
                  IN  [status |-> rest.status,
                       found |-> IF rest.status # "ok" THEN <<>>
                                 ELSE IF m = "true"
                                      THEN <<PeakAt(ff, tt)>> \o rest.found
                                      ELSE rest.found]

\* spectrogram.len() - neighborhood_size
TEnd == WrappingSub(Len(spectrogram), NeighborhoodSize)

\* find_peaks(&self, spectrogram) is called
FindPeaks ==
    /\ pc = "ready" /\ entry = "find_peaks"
    /\ spectrogram' \in Spectrograms
    /\ pc' = "find_peaks"
    /\ UNCHANGED <<procVars, entry, audio_data, i, t, peaks, hash, result, matchVars>>

\* let mut peaks = Vec::new(); the outer range is built
FindPeaksBegin ==
    /\ pc = "find_peaks"
    /\ peaks' = <<>>
    /\ IF Len(spectrogram) < NeighborhoodSize /\ build = "debug"
       THEN /\ result' = "panic_overflow" /\ pc' = "done" /\ UNCHANGED t
       ELSE /\ t' = NeighborhoodSize /\ pc' = "scan" /\ UNCHANGED result
    /\ UNCHANGED <<procVars, entry, audio_data, spectrogram, i, hash, matchVars>>

\* one step of the outer loop: the next frame's row is scanned, or the
\* loop ends and find_peaks returns
FindPeaksFrame ==
    /\ pc = "scan"
    /\ IF t < TEnd
       THEN IF t >= Len(spectrogram)
            THEN /\ result' = "panic_index" /\ pc' = "done"
                 /\ UNCHANGED <<t, peaks>>
            ELSE LET bins == Len(spectrogram[t + 1]) IN
                 IF bins < NeighborhoodSize /\ build = "debug"
                 THEN /\ result' = "panic_overflow" /\ pc' = "done"
                      /\ UNCHANGED <<t, peaks>>
                 ELSE LET row == ScanRow(spectrogram, t, NeighborhoodSize,
                                         WrappingSub(bins, NeighborhoodSize))
                      IN  IF row.status # "ok"
                          THEN /\ result' = row.status /\ pc' = "done"
                               /\ UNCHANGED <<t, peaks>>
                          ELSE /\ peaks' = peaks \o row.found
                               /\ t' = t + 1
                               /\ UNCHANGED <<pc, result>>
       ELSE /\ IF entry = "find_peaks"
               THEN result' = "returned" /\ pc' = "done"
               ELSE pc' = "generate_hash" /\ UNCHANGED result
            /\ UNCHANGED <<t, peaks>>
    /\ UNCHANGED <<procVars, entry, audio_data, spectrogram, i, hash, matchVars>>

---------------------------------------------------------------------------
(* generate_hash *)

\* DefaultHasher over the three u32 words; SipHash is taken as injective,
\* so a hash is the triple of the words written
PairHash(anchor, target) ==
    <<AsU32(anchor[1]), AsU32(target[1]), AsU32(FracSub(target[2], anchor[2]))>>

\* HashTargets with the exclusive range 1..fan_out
RECURSIVE HashTargetsExclusive(_, _, _)
HashTargetsExclusive(pk, a, j) ==
    IF j >= FanOut THEN <<>>
    ELSE IF a + j >= Len(pk) THEN <<>>
    ELSE <<PairHash(pk[a + 1], pk[a + j + 1])>> \o HashTargetsExclusive(pk, a, j + 1)

\* for j in 1..=fan_out, from j
RECURSIVE HashTargets(_, _, _)
HashTargets(pk, a, j) ==
    IF j > FanOut THEN <<>>
    ELSE IF a + j >= Len(pk) THEN <<>>
    ELSE <<PairHash(pk[a + 1], pk[a + j + 1])>> \o HashTargets(pk, a, j + 1)

\* for (i, &anchor) in peaks.iter().enumerate(), from a
RECURSIVE HashAnchors(_, _)
HashAnchors(pk, a) ==
    IF a >= Len(pk) THEN <<>>
    ELSE HashTargets(pk, a, 1) \o HashAnchors(pk, a + 1)

GenerateHashOf(pk) == HashAnchors(pk, 0)

\* generate_hash(&self, peaks) is called
GenerateHash ==
    /\ pc = "ready" /\ entry = "generate_hash"
    /\ peaks' \in PeakLists
    /\ pc' = "generate_hash"
    /\ UNCHANGED <<procVars, entry, audio_data, spectrogram, i, t, hash, result, matchVars>>

\* generate_hash runs; process_audio then returns Ok(AudioFingerprint)
GenerateHashRun ==
    /\ pc = "generate_hash"
    /\ hash' = GenerateHashOf(peaks)
    /\ result' = IF entry = "process_audio" THEN "Ok" ELSE "returned"
    /\ pc' = "done"
    /\ UNCHANGED <<procVars, entry, audio_data, spectrogram, i, t, peaks, matchVars>>

---------------------------------------------------------------------------
(* FingerprintMatcher *)

MatchThreshold == 10   \* find_match: best_score > 10

None == <<>>
Some(x) == <<x>>

EmptyMap == [n \in {} |-> None]

\* Insert that keeps an entry already present (entry().or_insert)
InsertIfAbsent(db, name, fp) ==
    [n \in DOMAIN db \cup {name} |-> IF n \in DOMAIN db THEN db[n] ELSE fp]

\* HashMap::insert
Insert(db, name, fp) ==
    [n \in DOMAIN db \cup {name} |-> IF n = name THEN fp ELSE db[n]]

\* Vec::contains
RECURSIVE Contains(_, _)
Contains(s, h) ==
    IF s = <<>> THEN FALSE
    ELSE IF Head(s) = h THEN TRUE ELSE Contains(Tail(s), h)

\* CompareLoop counting each distinct query value once
RECURSIVE CompareLoopDistinct(_, _)
CompareLoopDistinct(h1, h2) ==
    IF h1 = <<>> THEN 0
    ELSE (IF Contains(h2, Head(h1)) /\ ~Contains(Tail(h1), Head(h1)) THEN 1 ELSE 0)
         + CompareLoopDistinct(Tail(h1), h2)

\* for hash1 in &fp1.hash { if fp2.hash.contains(hash1) { score += 1 } }
RECURSIVE CompareLoop(_, _)
CompareLoop(h1, h2) ==
    IF h1 = <<>> THEN 0
    ELSE (IF Contains(h2, Head(h1)) THEN 1 ELSE 0) + CompareLoop(Tail(h1), h2)

\* CompareFingerprints with the two sides exchanged
CompareFingerprintsSwapped(fp1, fp2) == CompareLoop(fp2.hash, fp1.hash)

CompareFingerprints(fp1, fp2) == CompareLoop(fp1.hash, fp2.hash)

\* FindMatchLoop with `score >= best_score`: the last best entry wins
RECURSIVE FindMatchLoopLastWins(_, _, _, _, _)
FindMatchLoopLastWins(db, fingerprint, rest, best_match, best_score) ==
    IF rest = <<>> THEN [best_match |-> best_match, best_score |-> best_score]
    ELSE LET name == Head(rest)
             score == CompareFingerprints(fingerprint, db[name])
         IN  IF score >= best_score
             THEN FindMatchLoopLastWins(db, fingerprint, Tail(rest), Some(name), score)
             ELSE FindMatchLoopLastWins(db, fingerprint, Tail(rest), best_match, best_score)

\* the loop of find_match over the entries still to visit
RECURSIVE FindMatchLoop(_, _, _, _, _)
FindMatchLoop(db, fingerprint, rest, best_match, best_score) ==
    IF rest = <<>> THEN [best_match |-> best_match, best_score |-> best_score]
    ELSE LET name == Head(rest)
             score == CompareFingerprints(fingerprint, db[name])
         IN  IF score > best_score
             THEN FindMatchLoop(db, fingerprint, Tail(rest), Some(name), score)
             ELSE FindMatchLoop(db, fingerprint, Tail(rest), best_match, best_score)

\* the entries in the order `for (name, stored) in &self.database` visits
Entries(db, order) == SelectSeq(order, LAMBDA n : n \in DOMAIN db)

FindMatchOf(db, order, fingerprint) ==
    LET r == FindMatchLoop(db, fingerprint, Entries(db, order), None, 0)
    IN  IF r.best_score > MatchThreshold THEN r.best_match ELSE None

AddFingerprint(name, fingerprint) ==
    /\ database' = Insert(database, name, fingerprint)
    /\ last_op' = [op |-> "add", name |-> name, fp |-> fingerprint]
    /\ UNCHANGED <<iter_order, match_result, procVars, pipeVars>>

FindMatch(fingerprint) ==
    /\ match_result' = FindMatchOf(database, iter_order, fingerprint)
    /\ last_op' = [op |-> "find", name |-> "", fp |-> fingerprint]
    /\ UNCHANGED <<database, iter_order, procVars, pipeVars>>

---------------------------------------------------------------------------
(* Specifications of the pipeline *)

NoMatcher ==
    /\ database = EmptyMap
    /\ iter_order = <<>>
    /\ last_op = [op |-> "new", name |-> "", fp |-> [peaks |-> <<>>, hash |-> <<>>]]
    /\ match_result = None

PipeIdle(e) ==
    /\ entry = e
    /\ pc = "ready"
    /\ audio_data = <<>>
    /\ spectrogram = <<>>
    /\ i = 0
    /\ t = 0
    /\ peaks = <<>>
    /\ hash = <<>>
    /\ result = "running"

\* the fields are public: any positive window_size and overlap
InitAudio ==
    /\ sample_rate = DefaultSampleRate
    /\ window_size \in 1..MaxWindow
    /\ overlap \in 1..MaxHop
    /\ build \in Builds
    /\ PipeIdle("process_audio")
    /\ NoMatcher

NextAudio ==
    \/ ProcessAudio
    \/ WindowLoop
    \/ FindPeaksBegin
    \/ FindPeaksFrame
    \/ GenerateHashRun

SpecAudio == InitAudio /\ [][NextAudio]_vars

\* AudioProcessor::new(44100)
InitDefault(e) ==
    /\ sample_rate = DefaultSampleRate
    /\ window_size = DefaultWindowSize
    /\ overlap = DefaultOverlap
    /\ build \in Builds
    /\ PipeIdle(e)
    /\ NoMatcher

InitPeaks == InitDefault("find_peaks")

NextPeaks ==
    \/ FindPeaks
    \/ FindPeaksBegin
    \/ FindPeaksFrame

SpecPeaks == InitPeaks /\ [][NextPeaks]_vars

InitHash == InitDefault("generate_hash")

NextHash ==
    \/ GenerateHash
    \/ GenerateHashRun

SpecHash == InitHash /\ [][NextHash]_vars

---------------------------------------------------------------------------
(* Specification of the matcher *)

MaxRun == 11         \* a fingerprint repeats one hash up to MaxRun times

Names == {"clip1", "clip2", "clip3"}

Run(h, n) == [k \in 1..n |-> h]

\* two hash values generate_hash produces from the peak pool
HashA == PairHash(PeakLow, PeakHigh)
HashB == PairHash(PeakHigh, PeakLate)

\* a run of HashA (none, as many as the threshold, or MaxRun), then at
\* most one HashB
HashSeqs ==
    {Run(HashA, n) \o Run(HashB, m) :
        n \in {0, MatchThreshold, MaxRun}, m \in {0, 1}}

Fingerprints == {[peaks |-> <<>>, hash |-> h] : h \in HashSeqs}

Orders == {o \in [1..Cardinality(Names) -> Names] :
              \A a, b \in DOMAIN o : a # b => o[a] # o[b]}

\* FingerprintMatcher::new(). A HashMap iterates in an order its hasher's
\* random keys fix: any order is possible, drawn here once per matcher.
InitMatch ==
    /\ database = EmptyMap
    /\ iter_order \in Orders
    /\ last_op = [op |-> "new", name |-> "", fp |-> [peaks |-> <<>>, hash |-> <<>>]]
    /\ match_result = None
    /\ sample_rate = DefaultSampleRate
    /\ window_size = DefaultWindowSize
    /\ overlap = DefaultOverlap
    /\ build = "release"
    /\ PipeIdle("matcher")

NextMatch ==
    \/ \E name \in Names, fp \in Fingerprints : AddFingerprint(name, fp)
    \/ \E fp \in Fingerprints : FindMatch(fp)

SpecMatch == InitMatch /\ [][NextMatch]_vars

---------------------------------------------------------------------------
(* Claims *)

Panics == {"panic_overflow", "panic_index"}
LoopLeft == pc \in {"find_peaks", "scan", "generate_hash", "done"}

\* C1: for every sample sequence shorter than window_size, process_audio
\* never panics, its windowing loop leaves an empty spectrogram, and it
\* ends with Ok and a fingerprint of zero peaks and zero hashes.
C1_ShortInputEmptyFingerprint ==
    (entry = "process_audio" /\ pc # "ready" /\ Len(audio_data) < window_size)
    => /\ result \notin Panics
       /\ spectrogram = <<>>
       /\ pc = "done" => (result = "Ok" /\ peaks = <<>> /\ hash = <<>>)

\* C2: with 1 <= overlap <= window_size and at least window_size samples,
\* the windowing loop of process_audio leaves exactly
\* floor((len - window_size) / overlap) + 1 frames.
C2_FrameCount ==
    (entry = "process_audio" /\ LoopLeft /\ overlap <= window_size
        /\ Len(audio_data) >= window_size)
    => Len(spectrogram) = ((Len(audio_data) - window_size) \div overlap) + 1

\* C7: with overlap (the hop) greater than window_size, a process_audio
\* call that returns to its caller returns an Err result, never Ok with a
\* fingerprint.
C7_BadConfigurationIsErr ==
    (entry = "process_audio" /\ pc = "done" /\ overlap > window_size
        /\ result \notin Panics)
    => result = "Err"

\* C10: whatever the frame and bin counts of the spectrogram, no index
\* find_peaks or is_local_maximum reads lies outside the frames or bins
\* (an out-of-range read is Rust's index panic).
C10_ReadsInRange ==
    entry = "find_peaks" => result # "panic_index"

\* the grid points find_peaks scans: the border of NeighborhoodSize is left
\* out on every side
ScanPoints(sp) ==
    UNION {{<<tt, ff>> : ff \in NeighborhoodSize..(Len(sp[tt + 1]) - NeighborhoodSize - 1)} :
              tt \in NeighborhoodSize..(Len(sp) - NeighborhoodSize - 1)}

\* at least the threshold, and above each of the 48 neighbours
StrictPeak(sp, p) ==
    /\ At(sp, p[1], p[2]) >= Threshold
    /\ \A dt \in -Radius..Radius, df \in -Radius..Radius :
          <<dt, df>> # <<0, 0>> =>
              At(sp, p[1] + dt, p[2] + df) < At(sp, p[1], p[2])

\* (freq, time) pairs of one configuration share their denominators
ScanOrdered(a, b) ==
    \/ a[2][1] < b[2][1]
    \/ a[2][1] = b[2][1] /\ a[1][1] < b[1][1]

FindPeaksReturned == entry = "find_peaks" /\ pc = "done" /\ result = "returned"

\* C6: every peak find_peaks returns is a scanned grid point whose
\* magnitude is >= the threshold and strictly above its 48 neighbours;
\* every scanned point with these two properties is returned; the peaks are
\* in time-ascending, then frequency-ascending order.
C6_PeaksAreStrictMaxima ==
    FindPeaksReturned =>
       /\ \A k \in 1..Len(peaks) : \E p \in ScanPoints(spectrogram) :
             peaks[k] = PeakAt(p[2], p[1]) /\ StrictPeak(spectrogram, p)
       /\ \A p \in ScanPoints(spectrogram) : StrictPeak(spectrogram, p) =>
             \E k \in 1..Len(peaks) : peaks[k] = PeakAt(p[2], p[1])
       /\ \A k \in 1..(Len(peaks) - 1) : ScanOrdered(peaks[k], peaks[k + 1])

\* two peaks were returned, and a scanned point at the threshold was not
C6_Witness ==
    /\ FindPeaksReturned
    /\ Len(peaks) >= 2
    /\ \E p \in ScanPoints(spectrogram) :
          At(spectrogram, p[1], p[2]) >= Threshold /\ ~StrictPeak(spectrogram, p)

\* min(k, n - 1 - a): the targets of anchor a among n peaks
TargetCount(n, a) == IF n - 1 - a < FanOut THEN n - 1 - a ELSE FanOut

RECURSIVE HashesBefore(_, _)
HashesBefore(n, a) ==
    IF a = 0 THEN 0 ELSE HashesBefore(n, a - 1) + TargetCount(n, a - 1)

GenerateHashReturned == entry = "generate_hash" /\ pc = "done"

\* C5: for n peaks generate_hash returns sum_{a=0}^{n-1} min(FanOut, n-1-a)
\* hashes, anchor after anchor and, for one anchor, target offset 1, 2, ...;
\* at most n * FanOut, and none for fewer than 2 peaks.
C5_HashCountAndOrder ==
    GenerateHashReturned =>
       LET n == Len(peaks) IN
       /\ Len(hash) = HashesBefore(n, n)
       /\ \A a \in 0..(n - 1) : \A j \in 1..TargetCount(n, a) :
             hash[HashesBefore(n, a) + j] = PairHash(peaks[a + 1], peaks[a + j + 1])
       /\ Len(hash) <= n * FanOut
       /\ n < 2 => hash = <<>>

\* some anchor has all FanOut targets, a later one fewer
C5_Witness ==
    /\ GenerateHashReturned
    /\ Len(peaks) >= FanOut + 2
    /\ Len(hash) > FanOut
    /\ \E k \in 1..(Len(hash) - 1) : hash[k] # hash[k + 1]

\* the number of positions of the query's hashes whose value occurs among
\* the stored hashes
Overlap(q, stored) ==
    Cardinality({k \in 1..Len(q.hash) :
                    \E m \in 1..Len(stored.hash) : stored.hash[m] = q.hash[k]})

WithHashes(fp, more) == [fp EXCEPT !.hash = fp.hash \o more]

FindReturned == last_op.op = "find"

\* C8: compare_fingerprints(query, stored) is the number of query positions
\* whose value occurs in the stored hashes; appending hashes to the stored
\* side never lowers it, and appending a value already stored keeps it.
C8_ScoreIsOverlapAndMonotonic ==
    FindReturned =>
       \A n \in DOMAIN database :
          LET q == last_op.fp
              stored == database[n]
          IN  /\ CompareFingerprints(q, stored) = Overlap(q, stored)
              /\ \A more \in HashSeqs :
                    CompareFingerprints(q, WithHashes(stored, more))
                        >= CompareFingerprints(q, stored)
              /\ \A k \in 1..Len(stored.hash) :
                    CompareFingerprints(q, WithHashes(stored, <<stored.hash[k]>>))
                        = CompareFingerprints(q, stored)

\* a query scored against a stored fingerprint that repeats a value and
\* misses one of the query's
C8_Witness ==
    /\ FindReturned
    /\ \E n \in DOMAIN database :
          LET s == CompareFingerprints(last_op.fp, database[n])
          IN  /\ 0 < s /\ s < Len(last_op.fp.hash)
              /\ Len(database[n].hash) > s
              /\ \E more \in HashSeqs :
                    CompareFingerprints(last_op.fp, WithHashes(database[n], more)) > s

MaxOverlap(q) ==
    CHOOSE s \in {Overlap(q, database[n]) : n \in DOMAIN database} :
        \A n \in DOMAIN database : Overlap(q, database[n]) <= s

\* C4: find_match returns None exactly when the collection is empty or the
\* highest score is <= 10; otherwise the first entry in iteration order
\* with the highest score. The name returned is a key of the collection.
C4_BestMatch ==
    FindReturned =>
       LET q == last_op.fp
           es == Entries(database, iter_order)
       IN  IF database = EmptyMap \/ MaxOverlap(q) <= MatchThreshold
           THEN match_result = None
           ELSE \E k \in 1..Len(es) :
                   /\ match_result = Some(es[k])
                   /\ es[k] \in DOMAIN database
                   /\ Overlap(q, database[es[k]]) = MaxOverlap(q)
                   /\ \A m \in 1..(k - 1) : Overlap(q, database[es[m]]) < MaxOverlap(q)

\* a match was returned although a later entry has the same highest score
C4_Witness ==
    /\ FindReturned
    /\ match_result # None
    /\ LET es == Entries(database, iter_order) IN
       \E k, m \in 1..Len(es) :
          /\ k < m /\ match_result = Some(es[k])
          /\ Overlap(last_op.fp, database[es[m]]) = MaxOverlap(last_op.fp)
    /\ \E n \in DOMAIN database : Overlap(last_op.fp, database[n]) < MaxOverlap(last_op.fp)

OnlyClip1Identical ==
    /\ FindReturned
    /\ DOMAIN database = {"clip1"}
    /\ last_op.fp.hash = database["clip1"].hash

\* C3 as stated: one entry "clip1", a query with the same hashes, and at
\* least 10 of them: find_match returns Some("clip1").
C3_ReflexiveFromTen ==
    (OnlyClip1Identical /\ Len(last_op.fp.hash) >= MatchThreshold)
    => match_result = Some("clip1")

\* C3 amended: one entry "clip1", a query with the same hashes, and more
\* than 10 of them: find_match returns Some("clip1"), the score being the
\* number of hashes.
C3_ReflexiveAboveTen ==
    (OnlyClip1Identical /\ Len(last_op.fp.hash) > MatchThreshold)
    => /\ match_result = Some("clip1")
       /\ CompareFingerprints(last_op.fp, database["clip1"]) = Len(last_op.fp.hash)

C3_Witness ==
    /\ OnlyClip1Identical
    /\ Len(last_op.fp.hash) = MatchThreshold + 1
    /\ match_result = Some("clip1")

\* C9: add_fingerprint(name, fp) leaves name mapped to fp (whether or not
\* name was a key), adds no other key and leaves every other entry as it
\* was; find_match leaves the collection as it was. By induction every name
\* ever added maps to the fingerprint of its latest add.
C9_LastWriteWins ==
    [][ /\ last_op'.op = "add" =>
            /\ DOMAIN database' = DOMAIN database \cup {last_op'.name}
            /\ database'[last_op'.name] = last_op'.fp
            /\ \A n \in DOMAIN database \ {last_op'.name} :
                  database'[n] = database[n]
        /\ last_op'.op = "find" => database' = database ]_vars

\* an add returned while another name holds a different fingerprint
C9_Witness ==
    /\ last_op.op = "add"
    /\ Cardinality(DOMAIN database) >= 2
    /\ \E n \in DOMAIN database \ {last_op.name} : database[n] # last_op.fp

=============================================================================
